---- MODULE Spec2Model ----
(***************************************************************************)
(* A model of macos_accent.py: the palette table, the colour arithmetic,   *)
(* the three matchers and the four preference operations, which reach the  *)
(* macOS preference store only through the `defaults` command.             *)
(*                                                                         *)
(* Text is a sequence of one-character strings, so that formatting         *)
(* (str), the store's output and parsing (int, split, slicing) are         *)
(* computed character by character.  A colour channel is an integer        *)
(* number of units of 1/Denominator, the least common denominator of       *)
(* n/255 (a hex channel) and p/1000000 (a palette literal), so that        *)
(* differences, sums and comparisons are exact.                            *)
(***************************************************************************)
EXTENDS Integers, Sequences, FiniteSets, TLC

VARIABLES
    accent,     \* the store's AppleAccentColor: [set, text]
    highlight,  \* the store's AppleHighlightColor: [set, text]
    available,  \* whether the `defaults` command works on this machine
    op,         \* the last function called ("none" before the first call)
    arg,        \* its argument
    outcome,    \* "none", "return" or "raise"
    ret,        \* the value it returned
    cmds,       \* the external commands the last call ran, in order
    input       \* the argument drawn for a call of a function without effects

vars == <<accent, highlight, available, op, arg, outcome, ret, cmds, input>>

\* ------------------------------------------------------------------ bounds

\* longest string given to hex_colour_to_decimal_rgb
HexMaxLen == 8
\* longest list of colours given to the matchers
MaxList == 4
\* the colour grid has GridLevels + 1 values per channel
GridLevels == 6
\* longest list of colours given to set_closest_colour
MaxClosest == 3

\* -------------------------------------------------------------------- text

Last(s) == s[Len(s)]
Front(s) == SubSeq(s, 1, Len(s) - 1)

\* Python's s[i:j] (0-based, end exclusive, clipped to the string).
Slice(s, i, j) ==
    LET lo == IF i > Len(s) THEN Len(s) ELSE i
        hi == IF j > Len(s) THEN Len(s) ELSE j
    IN  IF hi <= lo THEN <<>> ELSE SubSeq(s, lo + 1, hi)

Whitespace == {" ", "\n", "\t", "\r"}

LowerDigits == <<"0", "1", "2", "3", "4", "5", "6", "7", "8", "9",
                 "a", "b", "c", "d", "e", "f">>
UpperDigits == <<"0", "1", "2", "3", "4", "5", "6", "7", "8", "9",
                 "A", "B", "C", "D", "E", "F">>

\* The value of a digit character, -1 when it is none.
DigitVal(c) ==
    IF \E i \in 1..16 : LowerDigits[i] = c
    THEN (CHOOSE i \in 1..16 : LowerDigits[i] = c) - 1
    ELSE IF \E i \in 1..16 : UpperDigits[i] = c
         THEN (CHOOSE i \in 1..16 : UpperDigits[i] = c) - 1
         ELSE -1

RECURSIVE LStrip(_)
LStrip(s) == IF s # <<>> /\ Head(s) \in Whitespace THEN LStrip(Tail(s)) ELSE s

RECURSIVE RStrip(_)
RStrip(s) == IF s # <<>> /\ Last(s) \in Whitespace THEN RStrip(Front(s)) ELSE s

RECURSIVE DigitsValue(_, _, _)
DigitsValue(s, base, acc) ==
    IF s = <<>> THEN acc
    ELSE IF Head(s) = "_" THEN DigitsValue(Tail(s), base, acc)
         ELSE DigitsValue(Tail(s), base, acc * base + DigitVal(Head(s)))

InBase(v, base) == v >= 0 /\ v < base

\* Digits of the base, single underscores allowed between them.
WellFormed(d, base) ==
    /\ d # <<>>
    /\ Head(d) # "_"
    /\ Last(d) # "_"
    /\ \A i \in 1..Len(d) :
          \/ d[i] = "_" /\ d[i + 1] # "_"
          \/ d[i] # "_" /\ InBase(DigitVal(d[i]), base)

PyDigits(d, base) ==
    IF WellFormed(d, base)
    THEN [ok |-> TRUE, val |-> DigitsValue(d, base, 0)]
    ELSE [ok |-> FALSE, val |-> 0]

DropUnderscore(p) == IF p # <<>> /\ Head(p) = "_" THEN Tail(p) ELSE p

PyPrefixed(u, base) ==
    IF base = 16 /\ Len(u) >= 2 /\ u[1] = "0" /\ u[2] \in {"x", "X"}
    THEN PyDigits(DropUnderscore(Tail(Tail(u))), base)
    ELSE PyDigits(u, base)

WithSign(sign, parsed) ==
    IF parsed.ok /\ sign = "-" THEN [ok |-> TRUE, val |-> 0 - parsed.val] ELSE parsed

PySigned(s, base) ==
    IF s # <<>> /\ Head(s) \in {"+", "-"}
    THEN WithSign(Head(s), PyPrefixed(Tail(s), base))
    ELSE PyPrefixed(s, base)

\* Python's int(text, base) for base 10 and 16: surrounding whitespace is
\* dropped, then an optional sign, for base 16 an optional 0x, then digits
\* of the base.  ok = FALSE is the ValueError.
PyInt(text, base) == PySigned(RStrip(LStrip(text)), base)

RECURSIVE NatStr(_)
NatStr(n) ==
    IF n < 10 THEN <<LowerDigits[n + 1]>>
    ELSE NatStr(n \div 10) \o <<LowerDigits[(n % 10) + 1]>>

\* IntStr without the sign.
IntStrUnsigned(n) == IF n < 0 THEN NatStr(0 - n) ELSE NatStr(n)

\* Python's str(n) of an int.
IntStr(n) == IF n < 0 THEN <<"-">> \o NatStr(0 - n) ELSE NatStr(n)

RECURSIVE Decimals(_, _)
Decimals(m, width) ==
    IF width = 0 THEN <<>>
    ELSE Decimals(m \div 10, width - 1) \o <<LowerDigits[(m % 10) + 1]>>

RECURSIVE DropZeros(_)
DropZeros(s) ==
    IF Len(s) > 1 /\ Last(s) = "0" THEN DropZeros(Front(s)) ELSE s

\* Python's str(x) of a palette literal x = m/1000000: the shortest decimal
\* that reads back as x, which for a literal of at most six decimals is the
\* literal without its trailing zeros (0.874510 -> "0.87451", 1.000000 ->
\* "1.0").
FloatStr(m) ==
    NatStr(m \div 1000000) \o <<".">> \o DropZeros(Decimals(m % 1000000, 6))

\* Python's str.split(text, sep): the pieces between the separators.
RECURSIVE SplitFrom(_, _, _)
SplitFrom(text, sep, piece) ==
    IF text = <<>> THEN <<piece>>
    ELSE IF Head(text) = sep
         THEN <<piece>> \o SplitFrom(Tail(text), sep, <<>>)
         ELSE SplitFrom(Tail(text), sep, Append(piece, Head(text)))

Split(text, sep) == SplitFrom(text, sep, <<>>)

\* Python's str.join(sep, pieces).
RECURSIVE Join(_, _)
Join(sep, pieces) ==
    IF pieces = <<>> THEN <<>>
    ELSE IF Len(pieces) = 1 THEN pieces[1]
         ELSE pieces[1] \o <<sep>> \o Join(sep, Tail(pieces))

\* ----------------------------------------------------------------- palette

\* One unit of a colour channel is 1/Denominator.
Denominator == 51 * 1000000
\* n/255, a channel read from two hex digits, in units.
HexUnit == Denominator \div 255
\* p/1000000, a channel written as a six-decimal literal, in units.
LiteralUnit == Denominator \div 1000000

Lit(p) == p * LiteralUnit

Blue == <<"B", "l", "u", "e">>
Purple == <<"P", "u", "r", "p", "l", "e">>
Pink == <<"P", "i", "n", "k">>
Red == <<"R", "e", "d">>
Orange == <<"O", "r", "a", "n", "g", "e">>
Yellow == <<"Y", "e", "l", "l", "o", "w">>
Green == <<"G", "r", "e", "e", "n">>
Graphite == <<"G", "r", "a", "p", "h", "i", "t", "e">>

\* key -> <<name, <<red, green, blue>>>>, as the dict literal gives them.
ACCENT_DEFINITIONS ==
    (-2 :> <<Blue, <<Lit(0), Lit(874510), Lit(1000000)>>>>)
    @@ (5 :> <<Purple, <<Lit(968627), Lit(831373), Lit(1000000)>>>>)
    @@ (6 :> <<Pink, <<Lit(1000000), Lit(749020), Lit(823529)>>>>)
    @@ (0 :> <<Red, <<Lit(1000000), Lit(733333), Lit(721569)>>>>)
    @@ (1 :> <<Orange, <<Lit(1000000), Lit(874510), Lit(701961)>>>>)
    @@ (2 :> <<Yellow, <<Lit(1000000), Lit(937255), Lit(690196)>>>>)
    @@ (3 :> <<Green, <<Lit(752941), Lit(964706), Lit(678431)>>>>)
    @@ (-1 :> <<Graphite, <<Lit(847059), Lit(847059), Lit(862745)>>>>)

\* list(dict.keys(ACCENT_DEFINITIONS)): the keys in insertion order.
KeyList == <<-2, 5, 6, 0, 1, 2, 3, -1>>
\* set(dict.keys(ACCENT_DEFINITIONS))
KeySet == DOMAIN ACCENT_DEFINITIONS
\* SettableKeys without the difference.
EveryKey == KeySet

\* set.difference(set(dict.keys(ACCENT_DEFINITIONS)), {-2})
SettableKeys == KeySet \ {-2}

\* Python's str(x) of a palette channel x.
ChannelStr(x) == FloatStr(x \div LiteralUnit)

\* ------------------------------------------------------------ colour maths

Abs(x) == IF x < 0 THEN 0 - x ELSE x

Raised == [ok |-> FALSE, rgb |-> <<0, 0, 0>>]

\* The tuple of the three channels, each an int(..., 16) / 255.
Channels(r, g, b) ==
    IF r.ok /\ g.ok /\ b.ok
    THEN [ok |-> TRUE, rgb |-> <<r.val * HexUnit, g.val * HexUnit, b.val * HexUnit>>]
    ELSE Raised

ChannelsFrom(hex_colour, off) ==
    Channels(PyInt(Slice(hex_colour, off, off + 2), 16),
             PyInt(Slice(hex_colour, off + 2, off + 4), 16),
             PyInt(Slice(hex_colour, off + 4, off + 6), 16))

\* hex_colour_to_decimal_rgb without the branch for '#'.
hex_colour_without_hash(hex_colour) ==
    IF hex_colour = <<>> THEN Raised ELSE ChannelsFrom(hex_colour, 0)

\* [ok, rgb]: ok = FALSE is the exception (IndexError on the empty string,
\* ValueError from int).
hex_colour_to_decimal_rgb(hex_colour) ==
    IF hex_colour = <<>> THEN Raised
    ELSE IF hex_colour[1] = "#" THEN ChannelsFrom(hex_colour, 1)
         ELSE ChannelsFrom(hex_colour, 0)

get_closeness(colour1, colour2) ==
    Abs(colour1[1] - colour2[1]) + Abs(colour1[2] - colour2[2])
        + Abs(colour1[3] - colour2[3])

\* ---------------------------------------------------------------- matchers

\* What a search returns: the key, and the final lowest_closeness_so_far.
Found(end) == [ok |-> TRUE, val |-> end[2], lowest |-> end[1]]
NotFound == [ok |-> FALSE, val |-> -2, lowest |-> 0]

\* The loop of get_closest_to_single_colour over the remaining keys:
\* <<lowest_closeness_so_far, closest_colour>> when it ends.
RECURSIVE SingleLoop(_, _, _, _)
SingleStep(decimal_rgb, keys, lowest_closeness_so_far, closest_colour, i, current_closeness) ==
    IF current_closeness < lowest_closeness_so_far
    THEN SingleLoop(decimal_rgb, keys, current_closeness, i)
    ELSE SingleLoop(decimal_rgb, keys, lowest_closeness_so_far, closest_colour)

SingleLoop(decimal_rgb, keys, lowest_closeness_so_far, closest_colour) ==
    IF keys = <<>> THEN <<lowest_closeness_so_far, closest_colour>>
    ELSE SingleStep(decimal_rgb, Tail(keys), lowest_closeness_so_far, closest_colour,
                    Head(keys),
                    get_closeness(decimal_rgb, ACCENT_DEFINITIONS[Head(keys)][2]))

\* SingleBound as 1, not 3.
SingleBoundOne == 1 * Denominator

\* The initial lowest_closeness_so_far of the single-colour search.
SingleBound == 3 * Denominator

SingleSearch(decimal_rgb) ==
    IF decimal_rgb.ok
    THEN Found(SingleLoop(decimal_rgb.rgb, KeyList, SingleBound, -2))
    ELSE NotFound

\* [ok, val, lowest]: val is the key returned, lowest the final
\* lowest_closeness_so_far; ok = FALSE when the colour does not convert.
get_closest_to_single_colour(hex_colour) ==
    SingleSearch(hex_colour_to_decimal_rgb(hex_colour))

RECURSIVE CumulativeCloseness(_, _)
CumulativeCloseness(decimal_rgb_colours, i) ==
    IF decimal_rgb_colours = <<>> THEN 0
    ELSE get_closeness(Head(decimal_rgb_colours), ACCENT_DEFINITIONS[i][2])
            + CumulativeCloseness(Tail(decimal_rgb_colours), i)

RECURSIVE CumulativeLoop(_, _, _, _)
CumulativeStep(decimal_rgb_colours, keys, lowest_closeness_so_far, closest_colour, i, current_closeness) ==
    IF current_closeness < lowest_closeness_so_far
    THEN CumulativeLoop(decimal_rgb_colours, keys, current_closeness, i)
    ELSE CumulativeLoop(decimal_rgb_colours, keys, lowest_closeness_so_far,
                        closest_colour)

CumulativeLoop(decimal_rgb_colours, keys, lowest_closeness_so_far, closest_colour) ==
    IF keys = <<>> THEN <<lowest_closeness_so_far, closest_colour>>
    ELSE CumulativeStep(decimal_rgb_colours, Tail(keys), lowest_closeness_so_far,
                        closest_colour, Head(keys),
                        CumulativeCloseness(decimal_rgb_colours, Head(keys)))

\* CumulativeBound without the number of colours.
CumulativeBoundOfOne(decimal_rgb_colours) == 3 * Denominator

\* The initial lowest_closeness_so_far of the cumulative search.
CumulativeBound(decimal_rgb_colours) == 3 * Len(decimal_rgb_colours) * Denominator

\* The list comprehension [f(x) for x in list] over hex_colour_to_decimal_rgb.
RECURSIVE DecimalRgbColours(_)
DecimalRgbColours(hex_colours) ==
    IF hex_colours = <<>> THEN <<>>
    ELSE <<hex_colour_to_decimal_rgb(Head(hex_colours))>>
            \o DecimalRgbColours(Tail(hex_colours))

RECURSIVE Rgbs(_)
Rgbs(converted) ==
    IF converted = <<>> THEN <<>>
    ELSE <<Head(converted).rgb>> \o Rgbs(Tail(converted))

CumulativeSearch(decimal_rgb_colours) ==
    Found(CumulativeLoop(decimal_rgb_colours, KeyList,
                         CumulativeBound(decimal_rgb_colours), -2))

CumulativeOf(converted) ==
    IF \A n \in 1..Len(converted) : converted[n].ok
    THEN CumulativeSearch(Rgbs(converted))
    ELSE NotFound

get_cumulative_closest_to_multiple_colours(hex_colours) ==
    CumulativeOf(DecimalRgbColours(hex_colours))

\* list.count(list, x)
Count(list, x) == Cardinality({n \in 1..Len(list) : list[n] = x})

\* Max as the least element.
Min(S) == CHOOSE m \in S : \A n \in S : m <= n

Max(S) == CHOOSE m \in S : \A n \in S : n <= m

\* The dict comprehension {count(c): c for c in closest_colours}: a later
\* colour replaces an earlier one that has the same count.
RECURSIVE Occurrences(_, _)
Occurrences(closest_colours, n) ==
    IF n = 0 THEN <<>>
    ELSE (Count(closest_colours, closest_colours[n]) :> closest_colours[n])
            @@ Occurrences(closest_colours, n - 1)

\* occurrences_of_closest_colours[max(dict.keys(occurrences_of_closest_colours))]
MostFrequent(occurrences_of_closest_colours) ==
    occurrences_of_closest_colours[Max(DOMAIN occurrences_of_closest_colours)]

\* The list comprehension over get_closest_to_single_colour.
RECURSIVE ClosestColours(_)
ClosestColours(hex_colours) ==
    IF hex_colours = <<>> THEN <<>>
    ELSE <<get_closest_to_single_colour(Head(hex_colours))>>
            \o ClosestColours(Tail(hex_colours))

RECURSIVE Vals(_)
Vals(singles) ==
    IF singles = <<>> THEN <<>>
    ELSE <<Head(singles).val>> \o Vals(Tail(singles))

MeanOf(singles) ==
    IF singles # <<>> /\ \A n \in 1..Len(singles) : singles[n].ok
    THEN [ok |-> TRUE,
          val |-> MostFrequent(Occurrences(Vals(singles), Len(singles))),
          lowest |-> 0]
    ELSE NotFound

\* [ok, val]: ok = FALSE is an exception (a colour that does not convert, or
\* max() of no keys for the empty list).
get_mean_closest_to_multiple_colours(hex_colours) ==
    MeanOf(ClosestColours(hex_colours))

\* ------------------------------------------------- the preference store

\* A preference that is not set.
Unset == [set |-> FALSE, text |-> <<>>]

AccentKey == "AppleAccentColor"
HighlightKey == "AppleHighlightColor"

\* `defaults read`: exit status 0 and the value followed by a newline, or a
\* non-zero status when the preference is not set or the command does not
\* work.
DefaultsRead(pref) ==
    IF available /\ pref.set
    THEN [returncode |-> 0, stdout |-> pref.text \o <<"\n">>]
    ELSE [returncode |-> 1, stdout |-> <<>>]

\* `defaults write`: the preference holds the text afterwards.
DefaultsWrite(pref, text) ==
    IF available THEN [set |-> TRUE, text |-> text] ELSE pref

\* `defaults delete`: the preference is not set afterwards.
DefaultsDelete(pref) == IF available THEN Unset ELSE pref

\* The exit status of `defaults write` and of `defaults delete` (which fails
\* on a preference that is not set).
WriteStatus == IF available THEN 0 ELSE 1
DeleteStatus(pref) == IF available /\ pref.set THEN 0 ELSE 1

\* One run of `defaults`: what it was asked and how it ended.
Command(cmd, key, text, status) ==
    [cmd |-> cmd, key |-> key, text |-> text, status |-> status]

\* ---------------------------------------------------------- preference I/O

Raise == [outcome |-> "raise", vals |-> {0}]
Return(vals) == [outcome |-> "return", vals |-> vals]

\* return int(...), or the ValueError of int.
Parsed(parsed) == IF parsed.ok THEN Return({parsed.val}) ELSE Raise

ParsedOrSentinel(parsed) == IF parsed.ok THEN Return({parsed.val}) ELSE Return({-2})

\* ReadAccentResult with -2 for an output that is no integer.
ReadAccentResultLenient(output) ==
    IF output.returncode = 0
    THEN ParsedOrSentinel(PyInt(output.stdout, 10))
    ELSE Return({-2})

\* What read_accent makes of the command's output.
ReadAccentResult(output) ==
    IF output.returncode = 0 THEN Parsed(PyInt(output.stdout, 10)) ELSE Return({-2})

\* The keys whose name is the text.  The loop runs over a set of keys, in no
\* particular order, and returns at the first.
NamedKeys(colour_text) == {i \in KeySet : ACCENT_DEFINITIONS[i][1] = colour_text}

ReturnOneOf(found) == IF found # {} THEN Return(found) ELSE Raise

\* split(...)[3] without its last character, looked up (IndexError when
\* there are fewer than four pieces).
LookUp(pieces) ==
    IF Len(pieces) < 4 THEN Raise
    ELSE ReturnOneOf(NamedKeys(Slice(pieces[4], 0, Len(pieces[4]) - 1)))

LookUpWhole(pieces) ==
    IF Len(pieces) < 4 THEN Raise ELSE ReturnOneOf(NamedKeys(pieces[4]))

\* ReadHighlightResult without the removal of the last character.
ReadHighlightResultWhole(output) ==
    IF output.returncode = 0 THEN LookUpWhole(Split(output.stdout, " ")) ELSE Return({-2})

\* What read_highlight makes of the command's output: vals holds every key
\* it can return.
ReadHighlightResult(output) ==
    IF output.returncode = 0 THEN LookUp(Split(output.stdout, " ")) ELSE Return({-2})

\* The text set_highlight writes for a key.
HighlightText(value) ==
    Join(" ", [c \in 1..3 |-> ChannelStr(ACCENT_DEFINITIONS[value][2][c])]
                  \o <<ACCENT_DEFINITIONS[value][1]>>)

\* The command set_accent runs, and the accent preference after it.
AccentCommand(value) ==
    IF value \in SettableKeys
    THEN Command("write", AccentKey, IntStr(value), WriteStatus)
    ELSE Command("delete", AccentKey, <<>>, DeleteStatus(accent))

AccentAfterSet(value) ==
    IF value \in SettableKeys
    THEN DefaultsWrite(accent, IntStr(value))
    ELSE DefaultsDelete(accent)

\* The command set_highlight runs, and the highlight preference after it.
HighlightCommand(value) ==
    IF value \in SettableKeys
    THEN Command("write", HighlightKey, HighlightText(value), WriteStatus)
    ELSE Command("delete", HighlightKey, <<>>, DeleteStatus(highlight))

HighlightAfterSet(value) ==
    IF value \in SettableKeys
    THEN DefaultsWrite(highlight, HighlightText(value))
    ELSE DefaultsDelete(highlight)

\* What read_accent and read_highlight do with the store as it is.
ReadAccentNow == ReadAccentResult(DefaultsRead(accent))
ReadHighlightNow == ReadHighlightResult(DefaultsRead(highlight))

\* A read: the store is left as it is.
ReadStep(name, result, command) ==
    /\ op' = name
    /\ arg' = <<>>
    /\ outcome' = result.outcome
    /\ ret' \in result.vals
    /\ cmds' = <<command>>
    /\ UNCHANGED <<accent, highlight, available, input>>

read_accent ==
    ReadStep("read_accent", ReadAccentNow,
             Command("read", AccentKey, <<>>, DefaultsRead(accent).returncode))

\* set_accent writing the highlight as well.
set_accent_and_highlight(value) ==
    /\ op' = "set_accent"
    /\ arg' = value
    /\ outcome' = "return"
    /\ ret' = 0
    /\ accent' = AccentAfterSet(value)
    /\ highlight' = HighlightAfterSet(value)
    /\ cmds' = <<AccentCommand(value)>>
    /\ UNCHANGED <<available, input>>

set_accent(value) ==
    /\ op' = "set_accent"
    /\ arg' = value
    /\ outcome' = "return"
    /\ ret' = 0
    /\ accent' = AccentAfterSet(value)
    /\ cmds' = <<AccentCommand(value)>>
    /\ UNCHANGED <<highlight, available, input>>

read_highlight ==
    ReadStep("read_highlight", ReadHighlightNow,
             Command("read", HighlightKey, <<>>, DefaultsRead(highlight).returncode))

set_highlight(value) ==
    /\ op' = "set_highlight"
    /\ arg' = value
    /\ outcome' = "return"
    /\ ret' = 0
    /\ highlight' = HighlightAfterSet(value)
    /\ cmds' = <<HighlightCommand(value)>>
    /\ UNCHANGED <<accent, available, input>>

\* set_accent(closest) and then set_highlight(closest), unless the matcher
\* raised.
SetBoth(hex_colours, closest) ==
    /\ op' = "set_closest_colour"
    /\ arg' = hex_colours
    /\ ret' = 0
    /\ IF closest.ok
       THEN /\ outcome' = "return"
            /\ accent' = AccentAfterSet(closest.val)
            /\ highlight' = HighlightAfterSet(closest.val)
            /\ cmds' = <<AccentCommand(closest.val), HighlightCommand(closest.val)>>
       ELSE /\ outcome' = "raise"
            /\ cmds' = <<>>
            /\ UNCHANGED <<accent, highlight>>
    /\ UNCHANGED <<available, input>>

\* set_closest_colour with the cumulative matcher.
set_cumulative_closest_colour(hex_colours) ==
    SetBoth(hex_colours, get_cumulative_closest_to_multiple_colours(hex_colours))

set_closest_colour(hex_colours) ==
    SetBoth(hex_colours, get_mean_closest_to_multiple_colours(hex_colours))

\* ------------------------------------------------ calls without effects

\* A call: its name, argument and result are recorded.
CallStep(name, argument, ok, value) ==
    /\ op' = name
    /\ arg' = argument
    /\ outcome' = IF ok THEN "return" ELSE "raise"
    /\ ret' = value
    /\ UNCHANGED <<accent, highlight, available, cmds, input>>

Converted(name, argument, result) == CallStep(name, argument, result.ok, result.rgb)
Matched(name, argument, result) == CallStep(name, argument, result.ok, result.val)

CallHexColourToDecimalRgb ==
    Converted("hex_colour_to_decimal_rgb", input, hex_colour_to_decimal_rgb(input))

CallGetClosestToSingleColour ==
    /\ Len(input) = 1
    /\ Matched("get_closest_to_single_colour", input[1],
               get_closest_to_single_colour(input[1]))

CallGetCumulativeClosest ==
    Matched("get_cumulative_closest_to_multiple_colours", input,
            get_cumulative_closest_to_multiple_colours(input))

CallGetMeanClosest ==
    Matched("get_mean_closest_to_multiple_colours", input,
            get_mean_closest_to_multiple_colours(input))

\* ------------------------------------------------------------------ inputs

Text(n, alphabet) == UNION {[1..k -> alphabet] : k \in 0..n}

\* '#', two hex digits and a letter that is no hex digit.
HexAlphabet == {"#", "0", "f", "g"}
HexStrings == Text(HexMaxLen, HexAlphabet)

HexByte(n) == <<LowerDigits[(n \div 16) + 1], LowerDigits[(n % 16) + 1]>>
HexOf(r, g, b) == HexByte(r) \o HexByte(g) \o HexByte(b)

\* A grid over the colour cube, every second colour written with '#'.
GridValues == {(255 * i) \div GridLevels : i \in 0..GridLevels}
GridColours ==
    {IF (r + g + b) % 2 = 0 THEN HexOf(r, g, b) ELSE <<"#">> \o HexOf(r, g, b) :
        r \in GridValues, g \in GridValues, b \in GridValues}

\* Colours nearest to Blue, Red, Green, Graphite and (black) Blue again.
ListColours ==
    {HexOf(0, 223, 255), <<"#">> \o HexOf(255, 187, 184), HexOf(192, 246, 173),
     HexOf(216, 216, 220), HexOf(0, 0, 0)}
ColourLists == Text(MaxList, ListColours)

MatchInputs == ColourLists \cup {<<h>> : h \in GridColours}

\* A colour that does not convert.
Malformed == <<"#", "g", "g">>
\* Colours nearest to Blue, Red and Green.
SetColours ==
    {HexOf(0, 223, 255), <<"#">> \o HexOf(255, 187, 184), HexOf(192, 246, 173)}
ClosestInputs ==
    Text(MaxClosest, SetColours) \cup {<<Malformed>>, <<HexOf(0, 0, 0), Malformed>>}

\* The palette keys, 4 (a gap in the table) and the 256 of the doctests.
SetArgs == KeySet \cup {4, 256}

\* What the store may hold that this program did not write: System
\* Settings' own highlight values (six decimals; "Other" for a custom
\* colour), its accent 4, and values set by hand.
ForeignAccents ==
    {Unset,
     [set |-> TRUE, text |-> <<"4">>],
     [set |-> TRUE, text |-> <<"b", "l", "u", "e">>],
     [set |-> TRUE, text |-> <<>>]}
ForeignHighlights ==
    {Unset,
     [set |-> TRUE, text |-> Join(" ", <<FloatStr(968627), FloatStr(831373),
                                         <<"1", ".", "0", "0", "0", "0", "0", "0">>,
                                         Purple>>)],
     [set |-> TRUE, text |-> Join(" ", <<FloatStr(5), FloatStr(5), FloatStr(5),
                                         <<"O", "t", "h", "e", "r">>>>)],
     [set |-> TRUE, text |-> Green]}

\* ---------------------------------------------------------- specifications

NoCall ==
    /\ op = "none"
    /\ arg = <<>>
    /\ outcome = "none"
    /\ ret = 0
    /\ cmds = <<>>

\* The program's calls on a store nothing else has written.
Init ==
    /\ accent = Unset
    /\ highlight = Unset
    /\ available \in BOOLEAN
    /\ input = <<>>
    /\ NoCall

Next ==
    \/ \E value \in SetArgs : set_accent(value)
    \/ \E value \in SetArgs : set_highlight(value)
    \/ read_accent
    \/ read_highlight
    \/ \E hex_colours \in ClosestInputs : set_closest_colour(hex_colours)

Spec == Init /\ [][Next]_vars

\* The same calls on a store that other programs have written.
InitForeign ==
    /\ accent \in ForeignAccents
    /\ highlight \in ForeignHighlights
    /\ available = TRUE
    /\ input = <<>>
    /\ NoCall

SpecForeign == InitForeign /\ [][Next]_vars

\* hex_colour_to_decimal_rgb on every string of HexStrings.
InitHex ==
    /\ accent = Unset
    /\ highlight = Unset
    /\ available = TRUE
    /\ input \in HexStrings
    /\ NoCall

NextHex == CallHexColourToDecimalRgb

SpecHex == InitHex /\ [][NextHex]_vars

\* The three matchers on every list of MatchInputs.
InitMatch ==
    /\ accent = Unset
    /\ highlight = Unset
    /\ available = TRUE
    /\ input \in MatchInputs
    /\ NoCall

NextMatch ==
    \/ CallGetClosestToSingleColour
    \/ CallGetCumulativeClosest
    \/ CallGetMeanClosest

SpecMatch == InitMatch /\ [][NextMatch]_vars

\* ------------------------------------------------------------------ claims

\* The palette keys other than the sentinel -2.
ClaimKeys == {-1, 0, 1, 2, 3, 5, 6}

Returns(value) == Return({value})

\* C1: after set_accent(k), k a palette key other than -2, on a machine
\* where `defaults` works, read_accent returns exactly k, whatever the store
\* held before.
C1_LastAccentWriteWins ==
    (op = "set_accent" /\ arg \in ClaimKeys /\ available)
        => /\ cmds = <<Command("write", AccentKey, accent.text, 0)>>
           /\ ReadAccentNow = Returns(arg)

C1_Witness ==
    /\ op = "set_accent"
    /\ arg = -1
    /\ available
    /\ highlight.set
    /\ ReadAccentNow = Returns(-1)

\* C2: the store never holds -2 or a value outside the palette: each
\* preference is unset or holds what its setter writes for a key of
\* ClaimKeys; set_accent(v) and set_highlight(v) with any other v run
\* `defaults delete`, and the next read returns -2.
C2_SentinelNeverWritten ==
    /\ accent.set => \E k \in ClaimKeys : accent.text = IntStr(k)
    /\ highlight.set =>
          \E k \in ClaimKeys :
              /\ Len(Split(highlight.text, " ")) = 4
              /\ Split(highlight.text, " ")[4] = ACCENT_DEFINITIONS[k][1]
    /\ (op = "set_accent" /\ arg \notin ClaimKeys)
          => /\ Len(cmds) = 1
             /\ cmds[1].cmd = "delete"
             /\ cmds[1].key = AccentKey
             /\ ~accent.set
             /\ ReadAccentNow = Returns(-2)
    /\ (op = "set_highlight" /\ arg \notin ClaimKeys)
          => /\ Len(cmds) = 1
             /\ cmds[1].cmd = "delete"
             /\ cmds[1].key = HighlightKey
             /\ ~highlight.set
             /\ ReadHighlightNow = Returns(-2)

\* A delete that removed a value that was set.
C2_Witness ==
    /\ op = "set_highlight"
    /\ arg = -2
    /\ cmds[1].status = 0
    /\ accent.set
    /\ ReadHighlightNow = Returns(-2)

\* C3: after set_highlight(k), k a palette key other than -2, the store
\* holds three channel values and the name, separated by spaces, and
\* read_highlight returns k and no other key.
C3_HighlightRoundTrip ==
    (op = "set_highlight" /\ arg \in ClaimKeys /\ available)
        => /\ Len(Split(highlight.text, " ")) = 4
           /\ Split(highlight.text, " ")[4] = ACCENT_DEFINITIONS[arg][1]
           /\ ReadHighlightNow = Returns(arg)

C3_Witness ==
    /\ op = "set_highlight"
    /\ arg = 3
    /\ available
    /\ accent.set
    /\ ReadHighlightNow = Returns(3)

\* C4: set_closest_colour on a non-empty list of valid colours returns
\* after running exactly two commands, one on the accent and then one on
\* the highlight; where `defaults` works, read_accent and read_highlight
\* then both return get_mean_closest_to_multiple_colours of the list.
C4_SetClosestSetsBoth ==
    (/\ op = "set_closest_colour"
     /\ arg # <<>>
     /\ \A n \in 1..Len(arg) : hex_colour_to_decimal_rgb(arg[n]).ok)
        => LET closest == get_mean_closest_to_multiple_colours(arg).val
           IN  /\ outcome = "return"
               /\ Len(cmds) = 2
               /\ cmds[1].key = AccentKey
               /\ cmds[2].key = HighlightKey
               /\ \A n \in 1..2 : cmds[n].cmd \in {"write", "delete"}
               /\ available => /\ ReadAccentNow = Returns(closest)
                               /\ ReadHighlightNow = Returns(closest)

C4_Witness ==
    /\ op = "set_closest_colour"
    /\ Len(arg) = 2
    /\ outcome = "return"
    /\ available
    /\ ReadAccentNow = Returns(3)
    /\ ReadHighlightNow = Returns(3)

\* The integers a stored accent is compared with.
SmallInts == -300..300

NoDigit(text) == \A n \in 1..Len(text) : DigitVal(text[n]) \notin 0..9

\* C5 as stated: read_accent never raises; it returns the integer the
\* output parses to, and -2 when the command fails or the output is no
\* integer.
C5_NeverRaises ==
    op = "read_accent"
        => /\ outcome = "return"
           /\ IF available /\ accent.set /\ \E n \in SmallInts : accent.text = IntStr(n)
              THEN accent.text = IntStr(ret)
              ELSE ret = -2

\* C5, amended: read_accent returns -2 when the command exits non-zero and
\* the integer when the output is one; when the command exits zero with an
\* output that holds no digit, it raises.
C5_RaisesOnUnparsable ==
    op = "read_accent"
        => IF ~(available /\ accent.set)
           THEN outcome = "return" /\ ret = -2
           ELSE /\ (\E n \in SmallInts : accent.text = IntStr(n))
                      => outcome = "return" /\ accent.text = IntStr(ret)
                /\ NoDigit(accent.text) => outcome = "raise"

C5_Witness ==
    /\ op = "read_accent"
    /\ outcome = "raise"
    /\ accent.set
    /\ cmds[1].status = 0

\* The string after one optional leading '#'.
Body(s) == IF s # <<>> /\ s[1] = "#" THEN Tail(s) ELSE s
IsHex(c) == DigitVal(c) \in 0..15
SixHexDigits(s) == Len(Body(s)) = 6 /\ \A n \in 1..6 : IsHex(Body(s)[n])

\* C6 as stated: hex_colour_to_decimal_rgb returns exactly for the strings
\* that are six hex digits after an optional '#', and fails for all others.
C6_RejectsAllButSixDigits ==
    op = "hex_colour_to_decimal_rgb" => (outcome = "return" <=> SixHexDigits(arg))

\* C6, amended: it returns the three channels for every string that, after
\* one optional '#', starts with six hex digits (whatever follows) or is
\* five hex digits (the last channel from one digit); it fails for every
\* string with fewer than five characters after the '#', and for every
\* string with a letter that is no hex digit, or a further '#', among the
\* first six of them.
C6_ReadsTheFirstSix ==
    op = "hex_colour_to_decimal_rgb"
        => LET b == Body(arg)
               n == IF Len(b) < 6 THEN Len(b) ELSE 6
               byte(i) == IF i + 1 <= Len(b)
                          THEN 16 * DigitVal(b[i]) + DigitVal(b[i + 1])
                          ELSE DigitVal(b[i])
           IN  /\ (Len(b) >= 5 /\ \A i \in 1..n : IsHex(b[i]))
                     => /\ outcome = "return"
                        /\ \A c \in 1..3 : ret[c] = byte(2 * c - 1) * HexUnit
               /\ Len(b) < 5 => outcome = "raise"
               /\ (\E i \in 1..n : b[i] \in {"g", "#"}) => outcome = "raise"

\* More than six digits after the '#', and accepted.
C6_Witness ==
    /\ op = "hex_colour_to_decimal_rgb"
    /\ outcome = "return"
    /\ Len(arg) = 8
    /\ arg[1] = "#"
    /\ ret = <<0, Denominator, 15 * HexUnit>>

PaletteRgb(k) == ACCENT_DEFINITIONS[k][2]

\* C7: get_closest_to_single_colour returns a palette key at the least
\* distance from the colour, and that distance, less than 3, is the final
\* lowest_closeness_so_far: the initial bound was replaced.
C7_SingleIsNearest ==
    op = "get_closest_to_single_colour"
        => /\ outcome = "return"
           /\ ret \in {-2, -1, 0, 1, 2, 3, 5, 6}
           /\ LET rgb == hex_colour_to_decimal_rgb(arg).rgb
                  least == get_closeness(rgb, PaletteRgb(ret))
              IN  /\ \A j \in KeySet : least <= get_closeness(rgb, PaletteRgb(j))
                  /\ least < 3 * Denominator
                  /\ get_closest_to_single_colour(arg).lowest = least

\* A colour whose nearest palette colour is at distance 1 or more.
C7_Witness ==
    /\ op = "get_closest_to_single_colour"
    /\ outcome = "return"
    /\ ret = 0
    /\ get_closeness(hex_colour_to_decimal_rgb(arg).rgb, PaletteRgb(ret)) >= Denominator

\* The nearest key of each colour of a list.
NearestKeys(hex_colours) == Vals(ClosestColours(hex_colours))
Dominant(keys, k) ==
    \A j \in KeySet \ {k} : Count(keys, k) > Count(keys, j)

\* C8: when one key is the nearest of strictly more colours of the list
\* than every other key, get_mean_closest_to_multiple_colours returns it.
C8_MajorityWins ==
    (op = "get_mean_closest_to_multiple_colours" /\ outcome = "return")
        => LET keys == NearestKeys(arg)
           IN  \A k \in KeySet : Dominant(keys, k) => ret = k

\* Four colours: two of one key, not the last, and one each of two others.
C8_Witness ==
    /\ op = "get_mean_closest_to_multiple_colours"
    /\ outcome = "return"
    /\ Len(arg) = 4
    /\ LET keys == NearestKeys(arg)
       IN  /\ Dominant(keys, ret)
           /\ Count(keys, ret) = 2
           /\ keys[4] # ret
           /\ keys[3] # ret
           /\ keys[3] # keys[4]

SummedCloseness(hex_colours, k) ==
    CumulativeCloseness(Rgbs(DecimalRgbColours(hex_colours)), k)

\* C9 as stated: for a list of any length the initial bound, 3 times the
\* number of colours, is replaced, and the key returned has the least
\* summed distance.
C9_CumulativeAlwaysUpdates ==
    (op = "get_cumulative_closest_to_multiple_colours" /\ outcome = "return")
        => LET least == SummedCloseness(arg, ret)
           IN  /\ \A j \in KeySet : least <= SummedCloseness(arg, j)
               /\ get_cumulative_closest_to_multiple_colours(arg).lowest = least
               /\ get_cumulative_closest_to_multiple_colours(arg).lowest
                     < 3 * Len(arg) * Denominator

\* C9, amended: so it is for every list that is not empty; for the empty
\* list the bound is 0, nothing replaces it and -2 is returned.
C9_CumulativeUpdatesNonEmpty ==
    (op = "get_cumulative_closest_to_multiple_colours" /\ outcome = "return")
        => LET least == SummedCloseness(arg, ret)
               lowest == get_cumulative_closest_to_multiple_colours(arg).lowest
           IN  /\ \A j \in KeySet : least <= SummedCloseness(arg, j)
               /\ lowest = least
               /\ arg # <<>> => lowest < 3 * Len(arg) * Denominator
               /\ arg = <<>> => lowest = 0 /\ ret = -2

C9_Witness ==
    /\ op = "get_cumulative_closest_to_multiple_colours"
    /\ outcome = "return"
    /\ Len(arg) = 4
    /\ ret = -1
    /\ SummedCloseness(arg, ret) > 3 * Denominator

Touches(key) ==
    \E n \in 1..Len(cmds') :
        cmds'[n].key = key /\ cmds'[n].cmd \in {"write", "delete"}

\* C10: a step changes a stored preference only by a write or a delete of
\* that preference's setter: read_accent and read_highlight change neither,
\* whatever they return or raise, set_accent leaves the highlight and
\* set_highlight the accent.
C10_OnlySettersChangeTheStore ==
    [][/\ op' \in {"read_accent", "read_highlight"}
            => accent' = accent /\ highlight' = highlight
       /\ op' = "set_accent" => highlight' = highlight
       /\ op' = "set_highlight" => accent' = accent
       /\ accent' # accent
            => op' \in {"set_accent", "set_closest_colour"} /\ Touches(AccentKey)
       /\ highlight' # highlight
            => op' \in {"set_highlight", "set_closest_colour"} /\ Touches(HighlightKey)
      ]_vars

\* A read that raised, with both preferences still set.
C10_Witness ==
    /\ op = "read_highlight"
    /\ outcome = "raise"
    /\ highlight.set
    /\ accent.set

====
